---- MODULE Spec2Model ----
(***************************************************************************)
(* The reader of libyaml (src/reader.c): the raw byte buffer and its       *)
(* refill, the detection of the stream encoding from a byte order mark,    *)
(* the UTF-8 / UTF-16 decoder with its checks, and the decoded (UTF-8)     *)
(* buffer the scanner reads from.                                          *)
(*                                                                         *)
(* The parser object is the record `parser`.  A call of                    *)
(* yaml_parser_update_buffer(parser, length) is followed through its two   *)
(* loops: every step of the model holds at most one invocation of the      *)
(* read handler, which is the only place where the environment chooses     *)
(* (how many bytes arrive, or a failure).  Everything the code does        *)
(* between two invocations of the read handler is one step.                *)
(***************************************************************************)
EXTENDS Integers, Sequences, FiniteSets, TLC

(* ------------------------------ bounds --------------------------------- *)

\* Capacity of the raw buffer (parser->raw_input.capacity).
RawCap == 4

\* Longest payload drawn from the mixed UTF-8 alphabet.
MaxLen == 3

\* Largest `length` argument of yaml_parser_update_buffer, but for Much.
MaxWant == 2

\* Capacity of the buffer of decoded characters (parser->input.capacity):
\* room for the characters of a full raw buffer, three octets for every
\* two-octet unit, and as much again.
InCap == 3 * RawCap

\* A `length` argument larger than the buffer has octets.
Much == InCap + 1

(* ------------------------------ helpers -------------------------------- *)

Min(a, b) == IF a < b THEN a ELSE b

\* All sequences over S of length 0..n.
SeqsUpTo(S, n) == UNION { [1..k -> S] : k \in 0..n }

\* s[from+1 .. from+n], 0-based offset `from` (a C pointer plus an index).
Slice(s, from, n) == SubSeq(s, from + 1, from + n)

IsPrefix(a, b) == Len(a) <= Len(b) /\ SubSeq(b, 1, Len(a)) = a

(* --------------------------- byte order marks -------------------------- *)

BOM_UTF8    == << \hEF, \hBB, \hBF >>
BOM_UTF16LE == << \hFF, \hFE >>
BOM_UTF16BE == << \hFE, \hFF >>

(* ----------------------------- the inputs ------------------------------ *)

\* 'A', 'B'
AsciiBytes == { \h41, \h42 }

\* 'A'; continuation octets 80, A0; leading octets C0 (always overlong), C3,
\* E0, F0; FF (never a leading octet).
Utf8Bytes == { \h41, \h80, \hA0, \hC0, \hC3, \hE0, \hFF }

\* Octets of UTF-16 units: 0041 / 4100 / 4141, high surrogate D8xx, low
\* surrogate DCxx.
Utf16Bytes == { \h00, \h41, \hD8, \hDC }

\* Streams that need more octets than MaxLen gives: overlong and valid
\* 4-octet sequences, a sequence split over the third refill.
ExtraInputs ==
    { << \hF0, \h80, \h80, \h80 >>, << \hF0, \hA0, \h80, \h80 >>,
      << \hE0, \h80, \h80 >>, << \hE0, \hA0, \h80 >>,
      << \h41, \h41, \h41, \hC3, \hA0 >>,
      << \h41, \h41, \h41, \h41, \hC3, \hA0 >>,
      << \hEF, \hBB, \hBF, \h41, \h42 >>,
      << \h00 >>, << \h41, \h00 >>, << \h09, \h0A, \h0D >>, << \hC2, \h85 >> }

Inputs ==
    SeqsUpTo(Utf8Bytes, MaxLen)
        \cup SeqsUpTo(AsciiBytes, MaxLen + 2)
        \cup { BOM_UTF8 \o s : s \in SeqsUpTo({ \h41, \hC3, \hA0 }, MaxLen - 1) }
        \cup { BOM_UTF16LE \o s : s \in SeqsUpTo(Utf16Bytes, MaxLen + 1) }
        \cup { BOM_UTF16BE \o s : s \in SeqsUpTo(Utf16Bytes, MaxLen + 1) }
        \cup ExtraInputs

(* ------------------------------- state --------------------------------- *)

VARIABLES
    parser,     \* the yaml_parser_t object (fields below)
    input,      \* the whole stream behind the read handler
    pos,        \* number of stream bytes the read handler has delivered
    drive,      \* how the stream is cut and asked for (see Drives)
    pc,         \* "idle" | "detect" | "fill": where the current call stands
    want,       \* the `length` argument of the call in progress / last call
    ret,        \* "ok" | "fail": what the call that has just returned
                \* returned; "none" before, during and once the caller has
                \* gone on reading characters
    io          \* what the read handler did in the last step

vars == << parser, input, pos, drive, pc, want, ret, io >>

YAML_ANY_ENCODING     == "ANY"
YAML_UTF8_ENCODING    == "UTF8"
YAML_UTF16LE_ENCODING == "UTF16LE"
YAML_UTF16BE_ENCODING == "UTF16BE"

\* The object after construction: empty buffers, encoding not yet known.
\* raw_buffer holds the octets [0, raw_length) of raw_input.buffer (no other
\* octet is ever read), in_buffer the octets [0, in_length) of
\* input.buffer.  is_incomplete is the local of that name as the last
\* decoding left it.  hist and sentinels are history: every character the
\* decoder has put into the buffer, with the raw octets it was made from,
\* and the number of NULs put at the end of the stream.
NewParser ==
    [ raw_buffer |-> << >>, raw_pointer |-> 0, raw_length |-> 0,
      in_buffer |-> << >>, in_pointer |-> 0, in_length |-> 0,
      unread |-> 0, encoding |-> YAML_ANY_ENCODING, offset |-> 0,
      is_eof |-> FALSE, is_incomplete |-> FALSE,
      error |-> "NONE", problem |-> "", problem_offset |-> 0,
      problem_value |-> -1,
      hist |-> << >>, sentinels |-> 0 ]

\* io when the read handler was not invoked in the step.  Else: its return
\* value, the room it was offered, the octets it wrote, the octets not yet
\* decoded before the call of yaml_parser_update_raw_buffer and after it,
\* and whether those before were the beginning of an incomplete character.
NoIo == [ called |-> FALSE, ok |-> TRUE, offered |-> 0, got |-> << >>,
          before |-> << >>, after |-> << >>, pending |-> FALSE ]

(* ------------------------------ errors --------------------------------- *)

\* READER_ERROR_INIT(parser, problem, offset)
ReaderError(p, problem, offset) ==
    [ p EXCEPT !.error = "READER", !.problem = problem,
               !.problem_offset = offset, !.problem_value = -1 ]

\* DECODER_ERROR_INIT(parser, problem, offset, value)
DecoderError(p, problem, offset, value) ==
    [ p EXCEPT !.error = "DECODER", !.problem = problem,
               !.problem_offset = offset, !.problem_value = value ]

(* ------------------- yaml_parser_update_raw_buffer --------------------- *)

\* "Return if the raw buffer is full."
RawIsFull(p) == p.raw_pointer = 0 /\ p.raw_length = RawCap

\* The read handler is invoked unless the buffer is full or EOF was seen.
NeedsRead(p) == ~RawIsFull(p) /\ ~p.is_eof

\* Offered counting the room from the pointer.
Offered_FromPointer(p) == RawCap - p.raw_pointer

\* What the handler is offered: capacity - length octets at buffer + length.
Offered(p) == RawCap - p.raw_length

\* "Move the remaining bytes in the raw buffer to the beginning": the
\* memmove of [pointer, length) to 0, then pointer = 0.  raw_input.length is
\* left as it is.
MoveRaw(p) ==
    LET n == p.raw_length - p.raw_pointer
        moved == [ i \in 1..p.raw_length |->
                     IF i <= n THEN p.raw_buffer[i + p.raw_pointer]
                               ELSE p.raw_buffer[i] ]
    IN  [ p EXCEPT
            !.raw_buffer = IF p.raw_pointer > 0 /\ p.raw_pointer < p.raw_length
                           THEN moved ELSE @,
            !.raw_pointer = 0 ]

\* ReadInto that does not set is_eof when the handler writes nothing.
ReadInto_NoEof(p, d) ==
    IF ~d.ok
    THEN ReaderError(p, "Input error", p.offset)
    ELSE [ p EXCEPT !.raw_buffer = @ \o d.bytes,
                    !.raw_length = @ + Len(d.bytes) ]

\* The call of the read handler and what follows it.  d.ok is the handler's
\* return value, d.bytes what it wrote at buffer + length.
ReadInto(p, d) ==
    IF ~d.ok
    THEN ReaderError(p, "Input error", p.offset)
    ELSE [ p EXCEPT !.raw_buffer = @ \o d.bytes,
                    !.raw_length = @ + Len(d.bytes),
                    !.is_eof = @ \/ Len(d.bytes) = 0 ]

UpdateRawBuffer(p, d) ==
    IF ~NeedsRead(p) THEN p ELSE ReadInto(MoveRaw(p), d)

\* The octets of raw_input not yet decoded, [pointer, length).
RawUnread(p) == Slice(p.raw_buffer, p.raw_pointer, p.raw_length - p.raw_pointer)

(* ------------------- yaml_parser_determine_encoding -------------------- *)

\* DetectMore waiting for two octets only.
DetectMore_TwoOctets(p) == ~p.is_eof /\ p.raw_length < 2

\* The loop condition of "Ensure that we had enough bytes in the raw buffer".
DetectMore(p) == ~p.is_eof /\ p.raw_length < 3

\* memcmp(parser->raw_input.buffer, bom, n) == 0, guarded by length >= n
HasBom(p, bom) ==
    p.raw_length >= Len(bom) /\ SubSeq(p.raw_buffer, 1, Len(bom)) = bom

\* DetermineEncoding that sets no encoding when it finds no mark.
DetermineEncoding_NoDefault(p) ==
    IF HasBom(p, BOM_UTF16LE)
    THEN [ p EXCEPT !.encoding = YAML_UTF16LE_ENCODING,
                    !.raw_pointer = 2, !.offset = 2 ]
    ELSE IF HasBom(p, BOM_UTF16BE)
    THEN [ p EXCEPT !.encoding = YAML_UTF16BE_ENCODING,
                    !.raw_pointer = 2, !.offset = 2 ]
    ELSE IF HasBom(p, BOM_UTF8)
    THEN [ p EXCEPT !.encoding = YAML_UTF8_ENCODING,
                    !.raw_pointer = 3, !.offset = 3 ]
    ELSE p

\* "Determine the encoding."
DetermineEncoding(p) ==
    IF HasBom(p, BOM_UTF16LE)
    THEN [ p EXCEPT !.encoding = YAML_UTF16LE_ENCODING,
                    !.raw_pointer = 2, !.offset = 2 ]
    ELSE IF HasBom(p, BOM_UTF16BE)
    THEN [ p EXCEPT !.encoding = YAML_UTF16BE_ENCODING,
                    !.raw_pointer = 2, !.offset = 2 ]
    ELSE IF HasBom(p, BOM_UTF8)
    THEN [ p EXCEPT !.encoding = YAML_UTF8_ENCODING,
                    !.raw_pointer = 3, !.offset = 3 ]
    ELSE [ p EXCEPT !.encoding = YAML_UTF8_ENCODING ]

(* ----------------------------- the decoder ----------------------------- *)

Decoded(value, width) == [ kind |-> "decoded", value |-> value, width |-> width ]

Incomplete == [ kind |-> "incomplete" ]

Invalid(problem, offset, value) ==
    [ kind |-> "invalid", problem |-> problem, offset |-> offset, value |-> value ]

\* "Determine the length of the UTF-8 sequence": the masks 80/E0/F0/F8.
Utf8Width(octet) ==
    IF octet \div 128 = 0 THEN 1
    ELSE IF octet \div 32 = 6 THEN 2
    ELSE IF octet \div 16 = 14 THEN 3
    ELSE IF octet \div 8 = 30 THEN 4
    ELSE 0

\* "Decode the leading octet": octet & 7F / 1F / 0F / 07.
Utf8Lead(octet) ==
    IF octet \div 128 = 0 THEN octet % 128
    ELSE IF octet \div 32 = 6 THEN octet % 32
    ELSE IF octet \div 16 = 14 THEN octet % 16
    ELSE IF octet \div 8 = 30 THEN octet % 8
    ELSE 0

\* (octet & 0xC0) == 0x80
IsTrailing(octet) == octet \div 64 = 2

\* The loop "Check and decode the trailing octets" from index k on, value
\* being what is decoded so far: the value, or -k at the first octet k that
\* is no trailing octet.
RECURSIVE Utf8Trail(_, _, _, _)
Utf8Trail(b, width, k, value) ==
    IF k >= width THEN value
    ELSE IF ~IsTrailing(b[k + 1]) THEN 0 - k
    ELSE Utf8Trail(b, width, k + 1, value * 64 + (b[k + 1] % 64))

\* Utf8LengthOk that accepts every length.
Utf8LengthOk_Any(width, value) == TRUE

\* "Check the length of the sequence against the value."
Utf8LengthOk(width, value) ==
    \/ width = 1
    \/ width = 2 /\ value >= \h80
    \/ width = 3 /\ value >= \h800
    \/ width = 4 /\ value >= \h10000

\* "Check the range of the value."
Utf8RangeOk(value) == ~((value >= \hD800 /\ value <= \hDFFF) \/ value > \h10FFFF)

\* case YAML_UTF8_ENCODING: b is raw_buffer from raw_pointer on, all
\* raw_unread octets of it.
DecodeUtf8(b, is_eof, offset) ==
    LET octet == b[1]
        width == Utf8Width(octet)
        value == Utf8Trail(b, width, 1, Utf8Lead(octet))
    IN  IF width = 0
        THEN Invalid("Invalid leading UTF-8 octet", offset, octet)
        ELSE IF width > Len(b)
        THEN IF is_eof
             THEN Invalid("Incomplete UTF-8 octet sequence", offset, -1)
             ELSE Incomplete
        ELSE IF value < 0
        THEN Invalid("Invalid trailing UTF-8 octet", offset - value, b[1 - value])
        ELSE IF ~Utf8LengthOk(width, value)
        THEN Invalid("Invalid length of a UTF-8 sequence", offset, -1)
        ELSE IF ~Utf8RangeOk(value)
        THEN Invalid("Invalid Unicode character", offset, value)
        ELSE Decoded(value, width)

\* raw_buffer[low + at] + (raw_buffer[high + at] << 8)
Utf16Unit(b, at, encoding) ==
    LET low  == IF encoding = YAML_UTF16LE_ENCODING THEN 0 ELSE 1
        high == IF encoding = YAML_UTF16LE_ENCODING THEN 1 ELSE 0
    IN  b[low + at + 1] + (b[high + at + 1] * 256)

\* (value & 0xFC00) == 0xDC00 and == 0xD800
IsLowSurrogate(value) == value \div 1024 = 55
IsHighSurrogate(value) == value \div 1024 = 54

\* case YAML_UTF16LE_ENCODING, YAML_UTF16BE_ENCODING
DecodeUtf16(b, is_eof, offset, encoding) ==
    IF Len(b) < 2
    THEN IF is_eof
         THEN Invalid("Incomplete UTF-16 character", offset, -1)
         ELSE Incomplete
    ELSE LET value == Utf16Unit(b, 0, encoding) IN
         IF IsLowSurrogate(value)
         THEN Invalid("Unexpected low surrogate area", offset, value)
         ELSE IF IsHighSurrogate(value)
         THEN IF Len(b) < 4
              THEN IF is_eof
                   THEN Invalid("Incomplete UTF-16 surrogate pair", offset, -1)
                   ELSE Incomplete
              ELSE LET value2 == Utf16Unit(b, 2, encoding) IN
                   IF ~IsLowSurrogate(value2)
                   THEN Invalid("Expected low surrogate area", offset + 2, value2)
                   ELSE Decoded(\h10000 + ((value % 1024) * 1024) + (value2 % 1024), 4)
         ELSE Decoded(value, 2)

\* Allowed with the test of [#x20-#x7E] lacking its lower end.
Allowed_NoLowerEnd(value) ==
    \/ value = \h09 \/ value = \h0A \/ value = \h0D
    \/ value <= \h7E
    \/ value = \h85
    \/ (value >= \hA0 /\ value <= \hD7FF)
    \/ (value >= \hE000 /\ value <= \hFFFD)
    \/ (value >= \h10000 /\ value <= \h10FFFF)

\* "Check if the character is in the allowed range"
Allowed(value) ==
    \/ value = \h09 \/ value = \h0A \/ value = \h0D
    \/ (value >= \h20 /\ value <= \h7E)
    \/ value = \h85
    \/ (value >= \hA0 /\ value <= \hD7FF)
    \/ (value >= \hE000 /\ value <= \hFFFD)
    \/ (value >= \h10000 /\ value <= \h10FFFF)

\* "Decode the next character" and the check of the allowed range: the
\* outcome for the character at raw_pointer (raw_pointer # raw_length).
DecodeOne(p) ==
    LET b == RawUnread(p)
        r == IF p.encoding = YAML_UTF8_ENCODING
             THEN DecodeUtf8(b, p.is_eof, p.offset)
             ELSE DecodeUtf16(b, p.is_eof, p.offset, p.encoding)
    IN  IF r.kind = "decoded" /\ ~Allowed(r.value)
        THEN Invalid("Control characters are not allowed", p.offset, r.value)
        ELSE r

\* PutOctets with 7FF taken for a three-octet character.
PutOctets_ThreeFrom7FF(value) ==
    IF value <= \h7F THEN << value >>
    ELSE IF value < \h7FF
    THEN << \hC0 + (value \div 64), \h80 + (value % 64) >>
    ELSE IF value <= \hFFFF
    THEN << \hE0 + (value \div 4096), \h80 + ((value \div 64) % 64), \h80 + (value % 64) >>
    ELSE << \hF0 + (value \div 262144), \h80 + ((value \div 4096) % 64),
            \h80 + ((value \div 64) % 64), \h80 + (value % 64) >>

\* "Finally put the character into the buffer": its UTF-8 octets.
PutOctets(value) ==
    IF value <= \h7F THEN << value >>
    ELSE IF value <= \h7FF
    THEN << \hC0 + (value \div 64), \h80 + (value % 64) >>
    ELSE IF value <= \hFFFF
    THEN << \hE0 + (value \div 4096), \h80 + ((value \div 64) % 64), \h80 + (value % 64) >>
    ELSE << \hF0 + (value \div 262144), \h80 + ((value \div 4096) % 64),
            \h80 + ((value \div 64) % 64), \h80 + (value % 64) >>

\* "Move the raw pointers", put the character, unread ++.
PutChar(p, r) ==
    [ p EXCEPT !.raw_pointer = @ + r.width,
               !.offset = @ + r.width,
               !.in_buffer = @ \o PutOctets(r.value),
               !.in_length = @ + Len(PutOctets(r.value)),
               !.unread = @ + 1,
               !.hist = Append(@, [ value |-> r.value,
                                    bytes |-> Slice(p.raw_buffer, p.raw_pointer, r.width) ]) ]

\* "Decode the raw buffer": the inner while loop, to its end, to the break
\* on an incomplete character, or to the return of an error.
RECURSIVE DecodeRaw(_)
DecodeRaw(p) ==
    IF p.raw_pointer = p.raw_length THEN [ p EXCEPT !.is_incomplete = FALSE ]
    ELSE LET r == DecodeOne(p) IN
         IF r.kind = "incomplete" THEN [ p EXCEPT !.is_incomplete = TRUE ]
         ELSE IF r.kind = "invalid"
         THEN [ DecoderError(p, r.problem, r.offset, r.value)
                    EXCEPT !.is_incomplete = FALSE ]
         ELSE DecodeRaw(PutChar(p, r))

\* "On EOF, put NUL into the buffer and return."
PutNul(p) ==
    [ p EXCEPT !.in_buffer = Append(@, 0),
               !.in_length = @ + 1,
               !.unread = @ + 1,
               !.hist = Append(@, [ value |-> 0, bytes |-> << >> ]),
               !.sentinels = @ + 1 ]

\* "Move the unread characters to the beginning of the buffer."
MoveInput(p) ==
    IF p.in_pointer > 0 /\ p.in_pointer < p.in_length
    THEN [ p EXCEPT !.in_buffer = Slice(@, p.in_pointer, p.in_length - p.in_pointer),
                    !.in_length = @ - p.in_pointer,
                    !.in_pointer = 0 ]
    ELSE IF p.in_pointer = p.in_length
    THEN [ p EXCEPT !.in_buffer = << >>, !.in_length = 0, !.in_pointer = 0 ]
    ELSE p

\* The decoder has written past the end of parser->input.buffer; what the
\* program does from there on is undefined and is not followed.
Overrun(p) == p.in_length > InCap

(* --------------------------- the read handler -------------------------- *)

\* "any": the handler writes any number of octets it has room for and the
\* caller asks for any number of characters.  "bytewise": the handler writes
\* one octet per invocation and the caller asks for one character at a
\* time.  "whole": the handler writes all it has room for and the caller
\* asks for one character at a time.
Drives == { "any", "bytewise", "whole" }

Lengths(how) == IF how = "any" THEN 0..MaxWant \cup { Much } ELSE { 1 }

\* How many octets the handler may write when offered `size` octets with
\* `left` octets of the stream not yet delivered: never more than it is
\* offered, and none only when there is nothing to deliver or no room.
ChunkSizes(how, size, left) ==
    LET max == Min(size, left) IN
    IF max = 0 THEN { 0 }
    ELSE IF how = "bytewise" THEN { 1 }
    ELSE IF how = "whole" THEN { max }
    ELSE 1..max

\* The outcomes of one invocation of parser->reader(data, buffer + length,
\* capacity - length, &length) with stream s delivered up to `at`.
Handler(how, s, at, size) ==
    { [ ok |-> TRUE, bytes |-> Slice(s, at, k) ] :
          k \in ChunkSizes(how, size, Len(s) - at) }
        \cup { [ ok |-> FALSE, bytes |-> << >> ] }

NoRead == [ ok |-> TRUE, bytes |-> << >> ]

\* The handler's outcomes in a call of yaml_parser_update_raw_buffer: it is
\* not invoked when the function returns early.
Reads(p, how, s, at) ==
    IF NeedsRead(p) THEN Handler(how, s, at, Offered(p)) ELSE { NoRead }

\* The record of the step's read, kept in io.
IoOf(p, d) ==
    IF ~NeedsRead(p) THEN NoIo
    ELSE [ called |-> TRUE, ok |-> d.ok, offered |-> Offered(p),
           got |-> d.bytes, before |-> RawUnread(p),
           after |-> RawUnread(UpdateRawBuffer(p, d)),
           pending |-> p.is_incomplete ]

(* -------------------- yaml_parser_update_buffer ------------------------ *)

\* ReturnsAtOnce without its first test.
ReturnsAtOnce_NoEofTest(p, length) == p.unread >= length

\* ReturnsAtOnce without its second test.
ReturnsAtOnce_EofOnly(p, length) == p.is_eof /\ p.raw_pointer = p.raw_length

\* "If the EOF flag is set and the raw buffer is empty, do nothing."
\* "Return if the buffer contains enough characters."
ReturnsAtOnce(p, length) ==
    \/ p.is_eof /\ p.raw_pointer = p.raw_length
    \/ p.unread >= length

\* FillOnce that does not test what yaml_parser_update_raw_buffer returns.
FillOnce_ReadUnchecked(p, d, length) ==
    LET p2 == DecodeRaw(UpdateRawBuffer(p, d))
    IN  IF p2.error # "NONE" THEN [ p |-> p2, to |-> "fail" ]
        ELSE IF p2.is_eof THEN [ p |-> PutNul(p2), to |-> "ok" ]
        ELSE IF p2.unread < length THEN [ p |-> p2, to |-> "fill" ]
        ELSE [ p |-> p2, to |-> "ok" ]

\* FillOnce with an `if` for the `while`: it returns after one turn.
FillOnce_OneTurn(p, d, length) ==
    LET p1 == UpdateRawBuffer(p, d)
        p2 == DecodeRaw(p1)
    IN  IF p1.error # "NONE" THEN [ p |-> p1, to |-> "fail" ]
        ELSE IF p2.error # "NONE" THEN [ p |-> p2, to |-> "fail" ]
        ELSE IF p2.is_eof THEN [ p |-> PutNul(p2), to |-> "ok" ]
        ELSE [ p |-> p2, to |-> "ok" ]

\* One turn of "Fill the buffer until it has enough characters", d being the
\* outcome of the read handler: the parser after it and whether the call
\* goes on ("fill") or returns ("ok", "fail").
FillOnce(p, d, length) ==
    LET p1 == UpdateRawBuffer(p, d)
        p2 == DecodeRaw(p1)
    IN  IF p1.error # "NONE" THEN [ p |-> p1, to |-> "fail" ]
        ELSE IF p2.error # "NONE" THEN [ p |-> p2, to |-> "fail" ]
        ELSE IF p2.is_eof THEN [ p |-> PutNul(p2), to |-> "ok" ]
        ELSE IF p2.unread < length THEN [ p |-> p2, to |-> "fill" ]
        ELSE [ p |-> p2, to |-> "ok" ]

\* The caller's reading of one character: the pointer moves over its
\* octets, unread --.
Take(p) ==
    [ p EXCEPT !.in_pointer = @ + Utf8Width(p.in_buffer[p.in_pointer + 1]),
               !.unread = @ - 1 ]

(* ------------------------------ actions -------------------------------- *)

Init ==
    /\ parser = NewParser
    /\ input \in Inputs
    /\ pos = 0
    /\ drive \in Drives
    /\ pc = "idle"
    /\ want = 0
    /\ ret = "none"
    /\ io = NoIo

\* yaml_parser_update_buffer(parser, length) returning at once.
EnsureReturn(length) ==
    /\ pc = "idle" /\ parser.error = "NONE" /\ ~Overrun(parser)
    /\ ReturnsAtOnce(parser, length)
    /\ want' = length
    /\ ret' = "ok"
    /\ io' = NoIo
    /\ UNCHANGED << parser, input, pos, drive, pc >>

\* yaml_parser_update_buffer(parser, length) up to its first loop.
EnsureEnter(length) ==
    /\ pc = "idle" /\ parser.error = "NONE" /\ ~Overrun(parser)
    /\ ~ReturnsAtOnce(parser, length)
    /\ want' = length
    /\ ret' = "none"
    /\ io' = NoIo
    /\ IF parser.encoding = YAML_ANY_ENCODING
       THEN pc' = "detect" /\ UNCHANGED parser
       ELSE pc' = "fill" /\ parser' = MoveInput(parser)
    /\ UNCHANGED << input, pos, drive >>

\* One turn of the loop of yaml_parser_determine_encoding.
DetectRead ==
    /\ pc = "detect" /\ DetectMore(parser)
    /\ \E d \in Reads(parser, drive, input, pos) :
         /\ parser' = UpdateRawBuffer(parser, d)
         /\ pos' = pos + Len(d.bytes)
         /\ io' = IoOf(parser, d)
    /\ pc' = IF parser'.error # "NONE" THEN "idle" ELSE "detect"
    /\ ret' = IF parser'.error # "NONE" THEN "fail" ELSE ret
    /\ UNCHANGED << input, drive, want >>

\* The end of yaml_parser_determine_encoding, and the move of the unread
\* characters that follows it in yaml_parser_update_buffer.
DetectDone ==
    /\ pc = "detect" /\ ~DetectMore(parser)
    /\ parser' = MoveInput(DetermineEncoding(parser))
    /\ pc' = "fill"
    /\ io' = NoIo
    /\ UNCHANGED << input, pos, drive, want, ret >>

\* One turn of the outer loop of yaml_parser_update_buffer.
Fill ==
    /\ pc = "fill" /\ ~Overrun(parser)
    /\ \E d \in Reads(parser, drive, input, pos) :
         LET r == FillOnce(parser, d, want) IN
         /\ parser' = r.p
         /\ pos' = pos + Len(d.bytes)
         /\ io' = IoOf(parser, d)
         /\ pc' = IF r.to = "fill" THEN "fill" ELSE "idle"
         /\ ret' = IF r.to = "fill" THEN ret ELSE r.to
    /\ UNCHANGED << input, drive, want >>

\* The caller takes one character from the buffer.
Consume ==
    /\ pc = "idle" /\ parser.error = "NONE" /\ ~Overrun(parser)
    /\ parser.unread > 0
    /\ parser' = Take(parser)
    /\ ret' = "none"
    /\ io' = NoIo
    /\ UNCHANGED << input, pos, drive, pc, want >>

Next ==
    \/ \E length \in Lengths(drive) : EnsureReturn(length)
    \/ \E length \in Lengths(drive) : EnsureEnter(length)
    \/ DetectRead
    \/ DetectDone
    \/ Fill
    \/ Consume

Spec == Init /\ [][Next]_vars

(* ------------------ a whole run with a fixed handler ------------------- *)

\* The handler's one successful outcome under "bytewise" or "whole".
TheRead(p, how, s, at) == CHOOSE d \in Reads(p, how, s, at) : d.ok

\* The loop of yaml_parser_determine_encoding with a handler that does not
\* fail: the parser and the stream position after it.
RECURSIVE DetectLoop(_, _, _, _)
DetectLoop(p, how, s, at) ==
    IF ~DetectMore(p) THEN [ p |-> p, at |-> at ]
    ELSE LET d == TheRead(p, how, s, at) IN
         DetectLoop(UpdateRawBuffer(p, d), how, s, at + Len(d.bytes))

\* The outer loop of yaml_parser_update_buffer with such a handler.
RECURSIVE FillLoop(_, _, _, _, _)
FillLoop(p, how, s, at, length) ==
    LET d == TheRead(p, how, s, at)
        r == FillOnce(p, d, length)
    IN  IF r.to = "fill"
        THEN FillLoop(r.p, how, s, at + Len(d.bytes), length)
        ELSE [ p |-> r.p, at |-> at + Len(d.bytes) ]

\* yaml_parser_update_buffer(parser, length) with such a handler.
UpdateBuffer(p, how, s, at, length) ==
    IF ReturnsAtOnce(p, length) THEN [ p |-> p, at |-> at ]
    ELSE IF p.encoding = YAML_ANY_ENCODING
    THEN LET a == DetectLoop(p, how, s, at) IN
         FillLoop(MoveInput(DetermineEncoding(a.p)), how, s, a.at, length)
    ELSE FillLoop(MoveInput(p), how, s, at, length)

\* The caller's loop: ask for one character, read what there is, until the
\* NUL is in the buffer or an error is reported.
RECURSIVE TakeAll(_)
TakeAll(p) == IF p.unread = 0 THEN p ELSE TakeAll(Take(p))

RECURSIVE Run(_, _, _, _)
Run(p, how, s, at) ==
    LET r == UpdateBuffer(p, how, s, at, 1) IN
    IF r.p.error # "NONE" \/ r.p.sentinels > 0 THEN r.p
    ELSE Run(TakeAll(r.p), how, s, r.at)

(* ------------------------- what a run produced ------------------------- *)

\* The characters of a history, in order.
Values(h) == [ i \in 1..Len(h) |-> h[i].value ]

\* The call has returned and the stream is over for the caller: the NUL is
\* in the buffer, or the decoder has reported an error.  (A failure of the
\* read handler is the handler's, not the stream's.)
Finished ==
    /\ pc = "idle"
    /\ parser.error # "READER"
    /\ parser.sentinels > 0 \/ parser.error = "DECODER"

\* What the caller has got of a stream: the characters and the error.
Outcome(p) == [ scalars |-> Values(p.hist), error |-> p.error, problem |-> p.problem ]

\* The decoder on a payload alone under a given encoding: the payload is all
\* there is in the raw buffer and the stream is at its end.
Alone(payload, encoding) ==
    LET p == DecodeRaw([ NewParser EXCEPT !.raw_buffer = payload,
                                          !.raw_length = Len(payload),
                                          !.is_eof = TRUE,
                                          !.encoding = encoding ])
    IN  IF p.error # "NONE" THEN p ELSE PutNul(p)

Markers ==
    { [ bom |-> BOM_UTF16LE, encoding |-> YAML_UTF16LE_ENCODING ],
      [ bom |-> BOM_UTF16BE, encoding |-> YAML_UTF16BE_ENCODING ],
      [ bom |-> BOM_UTF8,    encoding |-> YAML_UTF8_ENCODING ] }

\* The stream without the marker m it begins with.
Payload(m) == Slice(input, Len(m.bom), Len(input) - Len(m.bom))

(* ------------------------------- claims -------------------------------- *)

\* C1: for each of the three byte order marks and every payload, the stream
\* mark ++ payload, read to its end, gives the characters (and the NUL at
\* the end, or the error) that the payload alone gives under the mark's
\* encoding, and the offset is the length of the mark as long as no
\* character has been decoded; EF BB BF 41 42 gives 41, 42, 00 and no error.
C1_MarkIsTransparent ==
    /\ \A m \in Markers :
         IsPrefix(m.bom, input) =>
           /\ parser.encoding # YAML_ANY_ENCODING /\ parser.hist = << >>
                => parser.offset = Len(m.bom)
           /\ Finished =>
                /\ Values(parser.hist) = Values(Alone(Payload(m), m.encoding).hist)
                /\ parser.problem = Alone(Payload(m), m.encoding).problem
    /\ input = << \hEF, \hBB, \hBF, \h41, \h42 >> /\ Finished
         => Values(parser.hist) = << \h41, \h42, \h00 >> /\ parser.error = "NONE"

\* The runs of the model under "whole" end as Run computes them.
WholeRunAgrees ==
    drive = "whole" /\ Finished
        => Outcome(parser) = Outcome(Run(NewParser, "whole", input, 0))

\* C2: a handler that delivers one octet per invocation, the caller asking
\* for one character at a time, gives the characters and the success or
\* error that a handler delivering the whole input at once gives; a valid
\* input gives no error.
C2_BytewiseAsWhole ==
    drive = "bytewise" /\ Finished /\ Len(input) <= RawCap
        => Outcome(parser) = Outcome(Run(NewParser, "whole", input, 0))

\* The stream is ASCII text: characters 20..7E only, hence no marker.
IsAscii(s) == \A i \in 1..Len(s) : s[i] >= \h20 /\ s[i] <= \h7E

\* C3: for an ASCII stream of any length, cut in any way, the characters
\* decoded up to the end of the stream are the octets of the stream in
\* order, followed by the NUL: length + 1 characters in all, and as many
\* unread ones when the caller has read none.
C3_AsciiVerbatim ==
    IsAscii(input) =>
      /\ parser.error # "DECODER"
      /\ parser.sentinels > 0 => Values(parser.hist) = input \o << 0 >>
      /\ parser.sentinels > 0 /\ parser.in_length = Len(parser.hist)
           /\ parser.in_pointer = 0 => parser.unread = Len(input) + 1

\* C4: the NUL is put at most once; when it is put, the EOF flag is set and
\* the raw buffer is drained; every call made after it returns success at
\* once and changes nothing.
C4_OneSentinel ==
    /\ [](parser.sentinels <= 1)
    /\ [][ /\ parser'.sentinels > parser.sentinels
                => parser'.is_eof /\ parser'.raw_pointer = parser'.raw_length
           /\ parser.sentinels > 0
                => /\ pc' = "idle" /\ ret' # "fail"
                   /\ parser'.hist = parser.hist
                   /\ ret' = "ok" => parser' = parser ]_vars

\* The NUL has been put and read, and a later call has returned.
C4_Witness ==
    parser.sentinels = 1 /\ parser.unread = 0 /\ ret = "ok" /\ want > 0

\* C5 as stated: whenever a call returns success, unread >= length.
C5_EnoughUnread == ret = "ok" => parser.unread >= want

\* C5, amended: whenever a call returns success, unread >= length or the
\* stream is over (the EOF flag is set and the raw buffer is drained);
\* a call that does not return success has reported an error.
C5_EnoughOrOver ==
    /\ ret = "ok" => \/ parser.unread >= want
                     \/ parser.is_eof /\ parser.raw_pointer = parser.raw_length
    /\ ret = "ok" => parser.error = "NONE"
    /\ ret = "fail" => parser.error # "NONE"

\* A call that read from the handler has returned with enough characters
\* before the end of the stream.
C5_Witness ==
    ret = "ok" /\ io.called /\ want > 0 /\ parser.unread >= want /\ ~parser.is_eof

\* What the detection must give for stream s: the encoding, and the mark
\* skipped in the raw buffer and counted in the offset.
Detected(s, p) ==
    IF IsPrefix(<< \hFF, \hFE >>, s)
    THEN p.encoding = YAML_UTF16LE_ENCODING /\ p.raw_pointer = 2 /\ p.offset = 2
    ELSE IF IsPrefix(<< \hFE, \hFF >>, s)
    THEN p.encoding = YAML_UTF16BE_ENCODING /\ p.raw_pointer = 2 /\ p.offset = 2
    ELSE IF IsPrefix(<< \hEF, \hBB, \hBF >>, s)
    THEN p.encoding = YAML_UTF8_ENCODING /\ p.raw_pointer = 3 /\ p.offset = 3
    ELSE p.encoding = YAML_UTF8_ENCODING /\ p.raw_pointer = 0 /\ p.offset = 0

\* C6: whatever the stream and the way it is cut, the detection chooses
\* UTF-16LE and skips 2 octets for FF FE, UTF-16BE and 2 octets for FE FF,
\* UTF-8 and 3 octets for EF BB BF, and else UTF-8 and no octet, also for
\* streams that end before a mark is complete; no octet is decoded before.
C6_Detection ==
    /\ [](pc = "fill" => parser.encoding # YAML_ANY_ENCODING)
    /\ [][ parser.encoding = YAML_ANY_ENCODING /\ parser'.encoding # YAML_ANY_ENCODING
             => Detected(input, parser') /\ parser'.hist = << >> ]_vars

\* A mark that came one octet at a time has just been detected.
C6_Witness ==
    /\ drive = "bytewise" /\ pc = "fill" /\ parser.hist = << >> /\ io = NoIo
    /\ parser.encoding = YAML_UTF16BE_ENCODING /\ parser.raw_pointer = 2
    /\ parser.raw_length = 3

\* C7: when the decoder finds the next character incomplete before the end
\* of the stream, it reports no error, and after the next read the
\* character is decoded from the octets of it that were in the buffer
\* followed at once by the octets just read.
C7_IncompleteRetried ==
    /\ parser.is_incomplete => parser.error # "DECODER"
    /\ io.called /\ io.ok /\ io.pending => io.after = io.before \o io.got

\* C8: when the read handler fails, in the detection or in the outer loop,
\* the call fails with the reader error "Input error" at the current offset,
\* the handler is not invoked again, and no character is put into the buffer
\* after the failure.
C8_ReadFailure ==
    /\ [](parser.error = "READER"
            => /\ pc = "idle" /\ ret = "fail"
               /\ io.called /\ ~io.ok
               /\ parser.problem = "Input error"
               /\ parser.problem_offset = parser.offset)
    /\ [][ io'.called /\ ~io'.ok
             => /\ parser'.error = "READER" /\ pc' = "idle" /\ ret' = "fail"
                /\ parser'.problem_offset = parser.offset
                /\ parser'.hist = parser.hist
                /\ parser'.unread = parser.unread
                /\ pos' = pos ]_vars

\* The handler failed in the outer loop with characters decoded before and
\* octets waiting in the raw buffer.
C8_Witness ==
    /\ parser.error = "READER" /\ want > 0
    /\ parser.offset > 0 /\ Len(parser.hist) > 0 /\ io.before # << >>

\* The 16-bit units of a UTF-16 payload of even length.
Units(payload, encoding) ==
    [ i \in 1..(Len(payload) \div 2) |-> Utf16Unit(payload, 2 * (i - 1), encoding) ]

\* The payload ends with a high surrogate that nothing follows, after
\* characters that are all allowed.
LoneHighLast(payload, encoding) ==
    LET u == Units(payload, encoding) IN
    /\ Len(payload) % 2 = 0 /\ Len(u) >= 1
    /\ u[Len(u)] >= \hD800 /\ u[Len(u)] <= \hDBFF
    /\ \A i \in 1..(Len(u) - 1) : Allowed(u[i])

\* The payload begins with a low surrogate.
LowFirst(payload, encoding) ==
    /\ Len(payload) >= 2
    /\ Utf16Unit(payload, 0, encoding) >= \hDC00
    /\ Utf16Unit(payload, 0, encoding) <= \hDFFF

\* C9: a UTF-16 stream whose last unit is a lone high surrogate fails with
\* "Incomplete UTF-16 surrogate pair" however it is cut, and one that begins
\* with a low surrogate fails with "Unexpected low surrogate area".
C9_LoneSurrogates ==
    \A m \in Markers :
      m.encoding # YAML_UTF8_ENCODING /\ IsPrefix(m.bom, input) /\ Finished =>
        /\ LoneHighLast(Payload(m), m.encoding)
             => /\ parser.error = "DECODER"
                /\ parser.problem = "Incomplete UTF-16 surrogate pair"
        /\ LowFirst(Payload(m), m.encoding)
             => /\ parser.error = "DECODER"
                /\ parser.problem = "Unexpected low surrogate area"

\* The octets b begin with an overlong form: C0 or C1 and a trailing octet;
\* E0, 80..9F and a trailing octet; F0, 80..8F and two trailing octets.
OverlongForm(b) ==
    \/ Len(b) >= 2 /\ b[1] \in { \hC0, \hC1 } /\ b[2] \in \h80..\hBF
    \/ Len(b) >= 3 /\ b[1] = \hE0 /\ b[2] \in \h80..\h9F /\ b[3] \in \h80..\hBF
    \/ Len(b) >= 4 /\ b[1] = \hF0 /\ b[2] \in \h80..\h8F /\ b[3] \in \h80..\hBF
         /\ b[4] \in \h80..\hBF

\* The octet is no leading octet: 10xxxxxx or 11111xxx.
NoLeadingOctet(o) == o \in \h80..\hBF \/ o \in \hF8..\hFF

\* C10: under UTF-8, an overlong sequence fails with "Invalid length of a
\* UTF-8 sequence" and an octet that is no leading octet with "Invalid
\* leading UTF-8 octet" whenever the decoder comes to it, and no character
\* in the buffer was made from either.
C10_OverlongAndLeading ==
    /\ [](parser.encoding = YAML_UTF8_ENCODING =>
            \A i \in 1..Len(parser.hist) :
               parser.hist[i].bytes # << >> =>
                 /\ ~OverlongForm(parser.hist[i].bytes)
                 /\ ~NoLeadingOctet(parser.hist[i].bytes[1]))
    /\ [][ pc = "fill" /\ parser'.encoding = YAML_UTF8_ENCODING
             /\ parser'.error # "READER" /\ RawUnread(parser') # << >> =>
             /\ OverlongForm(RawUnread(parser'))
                  => /\ parser'.error = "DECODER" /\ ret' = "fail"
                     /\ parser'.problem = "Invalid length of a UTF-8 sequence"
             /\ NoLeadingOctet(RawUnread(parser')[1])
                  => /\ parser'.error = "DECODER" /\ ret' = "fail"
                     /\ parser'.problem = "Invalid leading UTF-8 octet" ]_vars

\* An overlong sequence that followed a decoded character was refused.
C10_Witness ==
    /\ parser.error = "DECODER" /\ Len(parser.hist) > 0
    /\ parser.problem = "Invalid length of a UTF-8 sequence"
    /\ OverlongForm(RawUnread(parser))

\* The characters a YAML stream may hold.
InAllowedSet(v) ==
    \/ v \in { \h09, \h0A, \h0D } \/ v \in \h20..\h7E \/ v = \h85
    \/ v \in \hA0..\hD7FF \/ v \in \hE000..\hFFFD \/ v \in \h10000..\h10FFFF

\* What the octets at raw_pointer are under the encoding, before the check
\* of the allowed range.
Structural(p) ==
    IF p.encoding = YAML_UTF8_ENCODING
    THEN DecodeUtf8(RawUnread(p), p.is_eof, p.offset)
    ELSE DecodeUtf16(RawUnread(p), p.is_eof, p.offset, p.encoding)

\* C11: every character the decoder has put into the buffer is in
\* {09, 0A, 0D}, 20..7E, {85}, A0..D7FF, E000..FFFD, 10000..10FFFF, whatever
\* the encoding; a well-formed character outside it (a NUL of the stream
\* too) fails with "Control characters are not allowed" at its own offset,
\* the raw pointer, the offset and unread staying before it; the only 0 in
\* the buffer is the NUL put at the end of the stream.
C11_AllowedOnly ==
    /\ [](\A i \in 1..Len(parser.hist) :
            IF parser.hist[i].bytes = << >>
            THEN parser.hist[i].value = 0 /\ i = Len(parser.hist)
            ELSE InAllowedSet(parser.hist[i].value))
    /\ [][ pc = "fill" /\ parser'.error # "READER" /\ RawUnread(parser') # << >>
             /\ Structural(parser').kind = "decoded"
             /\ ~InAllowedSet(Structural(parser').value) =>
             /\ parser'.error = "DECODER" /\ ret' = "fail"
             /\ parser'.problem = "Control characters are not allowed"
             /\ parser'.problem_value = Structural(parser').value
             /\ parser'.problem_offset = parser'.offset
             /\ parser'.unread = parser.unread + Len(parser'.hist) - Len(parser.hist) ]_vars
    /\ [][ parser'.problem = "Control characters are not allowed"
             => /\ RawUnread(parser') # << >>
                /\ Structural(parser').kind = "decoded"
                /\ ~InAllowedSet(Structural(parser').value) ]_vars

\* A NUL of the stream that followed a decoded character was refused.
C11_Witness ==
    /\ parser.error = "DECODER" /\ Len(parser.hist) > 0
    /\ parser.problem = "Control characters are not allowed"
    /\ parser.problem_value = 0 /\ parser.raw_buffer[parser.raw_pointer + 1] = 0

\* ---- The re-encoding read back by the UTF-8 decoder ----

\* How far around each boundary the characters are drawn.
Window == 4

\* The ends of the one-, two-, three- and four-octet ranges and of the
\* surrogate gap.
Boundaries == { \h00, \h7F, \h80, \h7FF, \h800, \hD7FF, \hE000, \hFFFF, \h10000, \h10FFFF }

\* One bit set, and all bits below one bit set: every bit of every octet.
OneBit == { 2^k : k \in 0..20 }

Scalars ==
    { v \in UNION { (b - Window)..(b + Window) : b \in Boundaries }
              \cup OneBit \cup { w - 1 : w \in OneBit } :
        v >= 0 /\ v <= \h10FFFF /\ ~(v >= \hD800 /\ v <= \hDFFF) }

\* What lies in the raw buffer after the character.
Tails == { << >> } \cup { << o, o, o >> : o \in { \h00, \h41, \h80, \hFF } }

RtInit ==
    /\ parser = [ NewParser EXCEPT !.encoding = YAML_UTF8_ENCODING ]
    /\ want \in Scalars
    /\ input = << >> /\ pos = 0 /\ drive = "whole"
    /\ pc = "encode" /\ ret = "none" /\ io = NoIo

\* The character `want` is put as the decode pass puts it; the octets
\* become the unread region of a raw buffer.
RtEncode ==
    /\ pc = "encode"
    /\ \E tail \in Tails : input' = PutOctets(want) \o tail
    /\ pc' = "decode"
    /\ UNCHANGED << parser, pos, drive, want, ret, io >>

\* One turn of the UTF-8 branch of the decode pass on these octets.
RtDecode ==
    /\ pc = "decode"
    /\ LET q == [ parser EXCEPT !.raw_buffer = input, !.raw_length = Len(input) ]
           r == DecodeUtf8(RawUnread(q), FALSE, q.offset)
       IN  /\ ret' = r.kind
           /\ parser' = IF r.kind = "decoded" THEN PutChar(q, r) ELSE q
    /\ pc' = "done"
    /\ UNCHANGED << input, pos, drive, want, io >>

RtNext == RtEncode \/ RtDecode

RoundTrip == RtInit /\ [][RtNext]_vars

WidthOf(v) == IF v <= \h7F THEN 1 ELSE IF v <= \h7FF THEN 2 ELSE IF v <= \hFFFF THEN 3 ELSE 4

\* C12: for every character v of 0..10FFFF outside D800..DFFF, the octets
\* the re-encoding writes (1, 2, 3 or 4 of them for v up to 7F, 7FF, FFFF
\* and above) are read back by the UTF-8 decoder as v, with a width equal to
\* the number of octets written, whatever follows them: the length and the
\* range checks pass.
C12_RoundTrip ==
    pc = "done" =>
        /\ ret = "decoded"
        /\ Len(PutOctets(want)) = WidthOf(want)
        /\ parser.hist = << [ value |-> want, bytes |-> PutOctets(want) ] >>
        /\ parser.raw_pointer = WidthOf(want)
        /\ parser.in_buffer = PutOctets(want)

\* The first four-octet character was read back, octets following it.
C12_Witness ==
    /\ pc = "done" /\ want = \h10000 /\ Len(input) > 4
    /\ parser.raw_pointer = 4 /\ parser.unread = 1

\* C13: the read handler is invoked, in the detection of the encoding as in
\* the filling loop, only while unread < length; a call entered with
\* unread >= length invokes it not at all and changes nothing of the parser
\* or of the stream.
C13_NoOverRead ==
    /\ [][ io'.called => pc \in { "detect", "fill" } /\ parser.unread < want ]_vars
    /\ [][ pc = "idle" /\ want' <= parser.unread
             /\ ~(pc' = "idle" /\ ret' = "none") =>
             /\ ret' = "ok" /\ pc' = "idle" /\ ~io'.called
             /\ parser' = parser /\ pos' = pos ]_vars

\* A call that found enough characters returned at once, the stream not
\* being over.
C13_Witness ==
    /\ ret = "ok" /\ ~io.called /\ want >= 1 /\ parser.unread >= want
    /\ pos > 0 /\ ~parser.is_eof /\ parser.raw_pointer < parser.raw_length

\* C14: after every call of yaml_parser_update_raw_buffer that invoked the
\* read handler successfully, the unread region of the raw buffer is the
\* octets that were unread before it followed by the octets the handler
\* wrote, in this order: no decoded octet is unread again.
C14_RefillKeepsUnread ==
    io.called /\ io.ok => io.after = io.before \o io.got

\* C15: is_eof is set only when the stream has no octet left that the
\* handler has not delivered (never because the handler was offered no
\* room), and once set it is never cleared.
C15_EofOnlyAtEnd ==
    /\ [](parser.is_eof => pos = Len(input))
    /\ [][ parser.is_eof => parser'.is_eof ]_vars

\* The length of the byte order mark the stream begins with.
MarkLength(s) ==
    IF \E m \in Markers : IsPrefix(m.bom, s)
    THEN Len((CHOOSE m \in Markers : IsPrefix(m.bom, s)).bom)
    ELSE 0

\* The octets of the characters decoded so far.
RECURSIVE Widths(_)
Widths(h) == IF h = << >> THEN 0 ELSE Len(h[1].bytes) + Widths(Tail(h))

\* C16: the offset never decreases; it is the number of octets of the
\* stream consumed so far, the mark and the octets of the decoded
\* characters, and so never more than the handler has delivered; the offset
\* of an error lies within the octets read.
C16_OffsetWithinRead ==
    /\ [](/\ parser.offset <= pos
          /\ parser.encoding # YAML_ANY_ENCODING
                => parser.offset = MarkLength(input) + Widths(parser.hist)
          /\ parser.error # "NONE" => parser.problem_offset <= pos)
    /\ [][ parser'.offset >= parser.offset ]_vars

\* C17: in every reachable state the pointer of the raw buffer is at most
\* its length and the length at most its capacity: the handler is never
\* offered more room than the buffer has after its length, and the decoder
\* never moves the pointer over octets that are not there.
C17_RawBounds ==
    /\ 0 <= parser.raw_pointer /\ parser.raw_pointer <= parser.raw_length
    /\ parser.raw_length <= RawCap
    /\ Len(parser.raw_buffer) = parser.raw_length
    /\ io.called => io.offered >= 0 /\ Len(io.got) <= io.offered

\* The handler was invoked on a buffer whose length was the capacity, and
\* the decoder has read the buffer to its end.
C17_Witness ==
    /\ io.called /\ io.offered = 0
    /\ parser.raw_length = RawCap /\ parser.raw_pointer = RawCap

\* The characters in a sequence of UTF-8 octets: its leading octets.
Characters(b) == Cardinality({ i \in 1..Len(b) : ~IsTrailing(b[i]) })

C19_DetectedOnce ==
    /\ [](pc = "detect" =>
            /\ parser.encoding = YAML_ANY_ENCODING
            /\ parser.offset = 0 /\ parser.hist = << >>)
    /\ [][ parser'.encoding # parser.encoding =>
             /\ pc = "detect" /\ parser.encoding = YAML_ANY_ENCODING
             /\ parser'.offset = MarkLength(input)
             /\ parser'.raw_pointer = MarkLength(input) ]_vars
    /\ [][ pc = "detect" /\ pc' = "fill" => parser'.encoding # YAML_ANY_ENCODING ]_vars
    /\ [][ parser.encoding # YAML_ANY_ENCODING =>
             /\ parser'.encoding = parser.encoding /\ pc' # "detect"
             /\ parser'.offset - parser.offset
                  = Widths(parser'.hist) - Widths(parser.hist) ]_vars

\* A later call is filling the buffer under the encoding detected by the
\* first one.
C19_Witness ==
    /\ pc = "fill" /\ want = 1 /\ Len(parser.hist) >= 1
    /\ parser.encoding = YAML_UTF16LE_ENCODING /\ parser.offset >= 4

\* What a call has left to do, at most: the handler may still report the
\* end of the stream, the raw buffer may still take octets, a full raw
\* buffer may still be decoded from its start, the detection may still end.
Rank ==
    (IF parser.is_eof THEN 0 ELSE 4 * RawCap + 4)
        + 4 * (RawCap - parser.raw_length)
        + (IF parser.raw_pointer = 0 THEN 2 ELSE 0)
        + (IF pc = "detect" THEN 1 ELSE 0)

\* C20: every call of yaml_parser_update_buffer returns, with success or
\* with an error, if every invocation of the read handler returns: while
\* the call goes on it has a next step (it is in one of its two loops, has
\* not written past the buffer, and the handler has an outcome), and every
\* step after which it still goes on makes Rank smaller, Rank being never
\* negative; so no turn of the loops reads nothing and decodes nothing,
\* whatever the handler delivers per invocation.
C20_CallReturns ==
    /\ [](Rank >= 0)
    /\ [](pc # "idle" =>
            /\ pc \in { "detect", "fill" } /\ ~Overrun(parser)
            /\ Reads(parser, drive, input, pos) # { })
    /\ [][ pc # "idle" /\ pc' # "idle" => Rank' < Rank ]_vars

\* A turn of the loop has read octets and has stopped at the beginning of a
\* character whose other octets it has not got, and the call goes on.
C20_Witness ==
    /\ pc = "fill" /\ io.called /\ Len(io.got) > 0
    /\ parser.is_incomplete /\ parser.unread < want

====
